---- MODULE Spec2Model ----
(***************************************************************************)
(* State-machine model of the gateway in src/server.js: the startup       *)
(* configuration check, the data-store routes, the OTP routes and the     *)
(* authenticated proxy routes built on makeAuthenticatedRequest.          *)
(*                                                                         *)
(* Request handlers share no mutable state, so one request is followed    *)
(* from arrival to response; each async handler is cut at its awaits.     *)
(***************************************************************************)
EXTENDS Integers, Sequences, FiniteSets, TLC

\* ------------------------------------------------------------------ bounds
MaxHeaderLen == 3

\* ------------------------------------------------------- JavaScript values
\* A JS value that is either undefined or a string (a sequence of atoms).
Undef == [def |-> FALSE, val |-> <<>>]
S(x) == [def |-> TRUE, val |-> x]
Lit(x) == S(<<x>>)

\* JS truthiness of an optional string: undefined and "" are falsy.
Truthy(s) == s.def /\ s.val # <<>>

\* a || b
OrElse(a, b) == IF Truthy(a) THEN a ELSE b

\* A JSON value as the gateway sees it: null, an array of rows, or an object
\* with the members the code reads or writes (message, error, token,
\* result.token).
NoResult == [def |-> FALSE, token |-> Undef]
Result(t) == [def |-> TRUE, token |-> t]
JNull == [kind |-> "null", message |-> Undef, error |-> Undef, token |-> Undef,
          result |-> NoResult, rows |-> <<>>]
JObj(m, e, t, r) == [kind |-> "object", message |-> m, error |-> e, token |-> t,
                     result |-> r, rows |-> <<>>]
JArr(rows) == [kind |-> "array", message |-> Undef, error |-> Undef, token |-> Undef,
               result |-> NoResult, rows |-> rows]

\* Bodies the gateway builds itself.
ErrorBody(msg) == JObj(Undef, msg, Undef, NoResult)
MessageBody(msg) == JObj(msg, Undef, Undef, NoResult)
LoginBody(tok) == JObj(Lit("Login successful!"), Undef, tok, NoResult)

\* Body of an outbound call.
NoBody == [to |-> Undef, code |-> Undef, Ip |-> Undef, lang |-> Undef, card |-> Undef]
TriggerBody(p) == [to |-> p, code |-> Undef, Ip |-> Undef, lang |-> Undef, card |-> Undef]
VerifyBody(p, c, ip) == [to |-> p, code |-> c, Ip |-> ip, lang |-> Lit("en"), card |-> Undef]
CardBody(card) == [to |-> Undef, code |-> Undef, Ip |-> Undef, lang |-> Undef, card |-> card]

\* ------------------------------------------------------------ input domains
HeaderChars == {"a", " "}
RECURSIVE SeqsUpTo(_, _)
SeqsUpTo(A, n) ==
  IF n = 0 THEN {<<>>}
  ELSE LET shorter == SeqsUpTo(A, n - 1)
       IN shorter \cup {Append(s, c) : s \in {t \in shorter : Len(t) = n - 1}, c \in A}

\* Authorization header: absent, or any string over HeaderChars.
Headers == {Undef} \cup {S(h) : h \in SeqsUpTo(HeaderChars, MaxHeaderLen)}

EnvValues == {Undef, Lit("v")}
NodeEnvs == {Undef, Lit("development"), Lit("production")}
Phones == {Undef, S(<<>>), Lit("+16045551234")}
Codes == {Undef, Lit("123456")}
Ids == {Undef, Lit("42")}
ReqIps == {Undef, Lit("10.0.0.9")}
Cards == {Undef, Lit("card")}

\* Tokens the upstream may place at result.token.
UpstreamTokens == {Undef, S(<<>>), Lit("tok1"), Lit("tok2")}
UpstreamStatuses == {200, 201, 404, 500}
UpstreamBodies ==
  { JNull,
    JArr(<<"r1">>),
    JObj(Undef, Undef, Undef, NoResult),
    JObj(Lit("upstream says no"), Undef, Undef, NoResult),
    JObj(Undef, Lit("not found"), Undef, NoResult) }
VerifyBodies ==
  { JNull, JObj(Lit("diag"), Undef, Undef, NoResult) }
  \cup { JObj(Undef, Undef, Undef, Result(t)) : t \in UpstreamTokens }
StoreRows == { JNull, JArr(<<>>), JArr(<<"r1">>), JArr(<<"r1", "r2">>) }
StoreErrors == { Undef, Lit("relation does not exist") }
ExceptionMessages == { Lit("fetch failed"), Lit("socket hang up") }
IpTexts == { Lit("7.7.7.7"), S(<<" ", "7.7.7.7", "\n">>), S(<<"7.7.7.7", "\n">>) }

Ok(status) == 200 <= status /\ status < 300

\* Outcome of one outbound call.
\*   kind "http"    : a response arrived (status, body; parsable says whether
\*                    the body text is JSON; text is a plain-text body)
\*   kind "neterr"  : the call rejected without a response (msg)
\*   kind "timeout" : the configured timeout elapsed (only calls that set one)
\*   kind "store"   : the data-store client resolved { data, error }
Http(st, b) == [kind |-> "http", status |-> st, parsable |-> TRUE, body |-> b,
                text |-> Undef, msg |-> Undef]
HttpGarbage(st) == [kind |-> "http", status |-> st, parsable |-> FALSE, body |-> JNull,
                    text |-> Undef, msg |-> Undef]
HttpText(st, t) == [kind |-> "http", status |-> st, parsable |-> FALSE, body |-> JNull,
                    text |-> t, msg |-> Undef]
NetErr(m) == [kind |-> "neterr", status |-> 0, parsable |-> FALSE, body |-> JNull,
              text |-> Undef, msg |-> m]
Timeout == [kind |-> "timeout", status |-> 0, parsable |-> FALSE, body |-> JNull,
            text |-> Undef, msg |-> Lit("timeout of 10000ms exceeded")]
StoreResult(d, e) == [kind |-> "store", status |-> 0, parsable |-> TRUE, body |-> d,
                      text |-> Undef, msg |-> e]

VARIABLES
  env,        \* process.env, fixed before the module body runs
  proc,       \* "booting" | "listening" | "exited"
  exitCode,   \* argument of process.exit, -1 while running
  checksRun,  \* number of times the required-variable check has run
  config,     \* isDev, SUPABASE_URL, SUPABASE_ANON_KEY, WHATS_DISH_BASE_URL
  req,        \* the inbound request being handled
  pc,         \* where its handler is suspended
  loc,        \* the handler's locals (token, phoneNumber, code, userIp)
  calls,      \* outbound calls issued for this request, in order
  replies,    \* their outcomes, in order
  responses   \* responses sent for this request, in order

vars == <<env, proc, exitCode, checksRun, config, req, pc, loc, calls, replies, responses>>
procVars == <<env, proc, exitCode, checksRun, config>>

NoConfig == [isDev |-> FALSE, SUPABASE_URL |-> Undef, SUPABASE_ANON_KEY |-> Undef,
             WHATS_DISH_BASE_URL |-> Undef]
NoReq == [route |-> "none", authorization |-> Undef, phoneNumber |-> Undef, phone |-> Undef,
          code |-> Undef, restaurant_id |-> Undef, restaurantId |-> Undef,
          cardInfo |-> Undef, ip |-> Undef]
NoLoc == [token |-> Undef, phoneNumber |-> Undef, code |-> Undef, userIp |-> Undef]

Envs == [NODE_ENV : NodeEnvs,
         DEV_SUPABASE_URL : EnvValues, PROD_SUPABASE_URL : EnvValues,
         DEV_SUPABASE_ANON_KEY : EnvValues, PROD_SUPABASE_ANON_KEY : EnvValues,
         DEV_WHATS_DISH_BASE_URL : EnvValues, PROD_WHATS_DISH_BASE_URL : EnvValues]

Init ==
  /\ env \in Envs
  /\ proc = "booting"
  /\ exitCode = -1
  /\ checksRun = 0
  /\ config = NoConfig
  /\ req = NoReq
  /\ pc = "idle"
  /\ loc = NoLoc
  /\ calls = <<>>
  /\ replies = <<>>
  /\ responses = <<>>

\* ------------------------------------------------------------------ startup
isDev(e) == e.NODE_ENV = Lit("development")

ResolveConfig(e) ==
  [isDev |-> isDev(e),
   SUPABASE_URL |-> IF isDev(e) THEN e.DEV_SUPABASE_URL ELSE e.PROD_SUPABASE_URL,
   SUPABASE_ANON_KEY |-> IF isDev(e) THEN e.DEV_SUPABASE_ANON_KEY ELSE e.PROD_SUPABASE_ANON_KEY,
   WHATS_DISH_BASE_URL |-> IF isDev(e) THEN e.DEV_WHATS_DISH_BASE_URL
                           ELSE e.PROD_WHATS_DISH_BASE_URL]

\* Mutant: the check forgets the upstream base URL.
requiredEnvVars_NoBaseUrl == {"SUPABASE_URL", "SUPABASE_ANON_KEY"}

requiredEnvVars == {"SUPABASE_URL", "SUPABASE_ANON_KEY", "WHATS_DISH_BASE_URL"}

missingVars(c) == {v \in requiredEnvVars : ~Truthy(c[v])}

\* The module body: resolve the configuration, check it once, then either
\* process.exit(1) or go on to app.listen.
Startup ==
  /\ proc = "booting"
  /\ LET c == ResolveConfig(env) IN
       /\ config' = c
       /\ checksRun' = checksRun + 1
       /\ IF missingVars(c) # {}
            THEN proc' = "exited" /\ exitCode' = 1
            ELSE proc' = "listening" /\ exitCode' = exitCode
  /\ UNCHANGED <<env, req, pc, loc, calls, replies, responses>>

\* --------------------------------------------------------- handler plumbing
\* The listener hands a request to its handler only once app.listen has run.
CanReceive == proc = "listening" /\ pc = "idle"

\* The response has gone out and the handler has returned: the server waits
\* for the next request.
EndRequest ==
  /\ pc = "done"
  /\ pc' = "idle"
  /\ req' = NoReq
  /\ loc' = NoLoc
  /\ calls' = <<>>
  /\ replies' = <<>>
  /\ responses' = <<>>
  /\ UNCHANGED <<env, proc, exitCode, checksRun, config>>

\* The timeout option of an outbound call in milliseconds; 0, the clients'
\* default, is no timeout.
NoTimeout == 0
AxiosTimeoutMs == 10000

\* An outbound call as its call site builds it; no call sets a timeout
\* unless its options say so.
Call(endpoint, method, base, path, token, body) ==
  [endpoint |-> endpoint, method |-> method, base |-> base, path |-> path,
   token |-> token, body |-> body, timeout |-> NoTimeout]

\* options { timeout: 10000 }
Timed(call) == [call EXCEPT !.timeout = AxiosTimeoutMs]

Response(status, body) == [status |-> status, body |-> body]

\* A handler that answers without suspending.
RespondNow(r, status, body) ==
  /\ req' = r
  /\ loc' = NoLoc
  /\ calls' = <<>>
  /\ replies' = <<>>
  /\ responses' = <<Response(status, body)>>
  /\ pc' = "done"
  /\ UNCHANGED procVars

\* A handler that issues its first outbound call and suspends at label.
Suspend(r, l, call, label) ==
  /\ req' = r
  /\ loc' = l
  /\ calls' = <<call>>
  /\ replies' = <<>>
  /\ responses' = <<>>
  /\ pc' = label
  /\ UNCHANGED procVars

\* The pending call resolves with outcome o and the handler answers.
Finish(o, status, body) ==
  /\ replies' = Append(replies, o)
  /\ responses' = Append(responses, Response(status, body))
  /\ pc' = "done"
  /\ UNCHANGED <<req, loc, calls>>
  /\ UNCHANGED procVars

\* Outcomes of an axios call with a timeout option: any response, a network
\* error, or the timeout.
AxiosOutcomes(bodies) ==
  {Http(st, b) : st \in UpstreamStatuses, b \in bodies}
    \cup {NetErr(m) : m \in ExceptionMessages} \cup {Timeout}

\* axios resolves on 2xx and rejects on everything else.
AxiosResolves(o) == o.kind = "http" /\ Ok(o.status)

\* ---------------------------------------------------------------- send-code
\* Mutant: only req.body.phone is read.
SendCode_PhoneOnly(phoneNumber, phone) ==
  /\ CanReceive
  /\ LET r == [NoReq EXCEPT !.route = "send-code", !.phoneNumber = phoneNumber,
                            !.phone = phone]
     IN IF ~Truthy(phone)
          THEN RespondNow(r, 400, ErrorBody(Lit("Phone number is required.")))
          ELSE Suspend(r, [NoLoc EXCEPT !.phoneNumber = phone],
                       Timed(Call("trigger", "POST", config.WHATS_DISH_BASE_URL,
                                  "/api/auth/login-with-sms-trigger", Undef,
                                  TriggerBody(phone))),
                       "send-code:trigger")

SendCode(phoneNumber, phone) ==
  /\ CanReceive
  /\ LET r == [NoReq EXCEPT !.route = "send-code", !.phoneNumber = phoneNumber,
                            !.phone = phone]
         p == OrElse(phoneNumber, phone)
     IN IF ~Truthy(p)
          THEN RespondNow(r, 400, ErrorBody(Lit("Phone number is required.")))
          ELSE Suspend(r, [NoLoc EXCEPT !.phoneNumber = p],
                       Timed(Call("trigger", "POST", config.WHATS_DISH_BASE_URL,
                                  "/api/auth/login-with-sms-trigger", Undef,
                                  TriggerBody(p))),
                       "send-code:trigger")

\* Mutant: a failed trigger call is relayed with the upstream status.
TriggerReply_RelayStatus(o) ==
  /\ pc = "send-code:trigger"
  /\ IF AxiosResolves(o)
       THEN Finish(o, 200, MessageBody(Lit("Verification code sent!")))
       ELSE Finish(o, IF o.kind = "http" THEN o.status ELSE 500,
                   ErrorBody(Lit("Failed to send verification code")))

TriggerReply(o) ==
  /\ pc = "send-code:trigger"
  /\ IF AxiosResolves(o)
       THEN Finish(o, 200, MessageBody(Lit("Verification code sent!")))
       ELSE Finish(o, 500, ErrorBody(Lit("Failed to send verification code")))

\* -------------------------------------------------------------- verify-code
IsSpace(c) == c \in {" ", "\n", "\t"}

RECURSIVE TrimStart(_)
TrimStart(s) == IF s # <<>> /\ IsSpace(Head(s)) THEN TrimStart(Tail(s)) ELSE s

RECURSIVE TrimEnd(_)
TrimEnd(s) ==
  IF s # <<>> /\ IsSpace(s[Len(s)]) THEN TrimEnd(SubSeq(s, 1, Len(s) - 1)) ELSE s

\* String.prototype.trim
Trim(s) == TrimEnd(TrimStart(s))

VerifyCode(phoneNumber, phone, code, ip) ==
  /\ CanReceive
  /\ LET r == [NoReq EXCEPT !.route = "verify-code", !.phoneNumber = phoneNumber,
                            !.phone = phone, !.code = code, !.ip = ip]
         p == OrElse(phoneNumber, phone)
     IN IF ~Truthy(p) \/ ~Truthy(code)
          THEN RespondNow(r, 400, ErrorBody(Lit("Phone number and code are required.")))
          ELSE Suspend(r, [NoLoc EXCEPT !.phoneNumber = p, !.code = code],
                       Call("ip", "GET", Lit("https://checkip.amazonaws.com"), "/",
                            Undef, NoBody),
                       "verify-code:ip")

\* Outcomes of the IP lookup (axios.get without a timeout option).
IpOutcomes ==
  {HttpText(200, t) : t \in IpTexts}
    \cup {Http(200, JNull), Http(500, JNull)}
    \cup {NetErr(m) : m \in ExceptionMessages}

\* The inner try block: ipResponse.data.trim() needs a resolved call and a
\* string body; anything else lands in the inner catch.
IpLookupSucceeds(o) == AxiosResolves(o) /\ o.text.def

\* Mutant: the loopback default is left out.
FallbackIp_NoDefault(r) == r.ip

FallbackIp(r) == OrElse(r.ip, Lit("127.0.0.1"))

ResolveUserIp(o, r) == IF IpLookupSucceeds(o) THEN S(Trim(o.text.val)) ELSE FallbackIp(r)

\* Mutant: a failed lookup lands in the handler's outer catch, as when the
\* lookup shares the try block of the verify call.
IpReply_NoFallback(o) ==
  /\ pc = "verify-code:ip"
  /\ IF IpLookupSucceeds(o)
       THEN /\ loc' = [loc EXCEPT !.userIp = S(Trim(o.text.val))]
            /\ calls' = Append(calls,
                          Timed(Call("verify", "POST", config.WHATS_DISH_BASE_URL,
                                     "/api/auth/login-with-sms-verify", Undef,
                                     VerifyBody(loc.phoneNumber, loc.code,
                                                S(Trim(o.text.val))))))
            /\ replies' = Append(replies, o)
            /\ pc' = "verify-code:verify"
            /\ UNCHANGED <<req, responses>>
            /\ UNCHANGED procVars
       ELSE Finish(o, 400, ErrorBody(Lit("Invalid verification code")))

\* The IP lookup settles; the handler resolves userIp and issues the verify
\* call.
IpReply(o) ==
  /\ pc = "verify-code:ip"
  /\ LET userIp == ResolveUserIp(o, req) IN
       /\ loc' = [loc EXCEPT !.userIp = userIp]
       /\ calls' = Append(calls,
                     Timed(Call("verify", "POST", config.WHATS_DISH_BASE_URL,
                                "/api/auth/login-with-sms-verify", Undef,
                                VerifyBody(loc.phoneNumber, loc.code, userIp))))
  /\ replies' = Append(replies, o)
  /\ pc' = "verify-code:verify"
  /\ UNCHANGED <<req, responses>>
  /\ UNCHANGED procVars

\* response?.data?.result?.token
ResultToken(o) ==
  IF o.parsable /\ o.body.kind = "object" /\ o.body.result.def
    THEN o.body.result.token ELSE Undef

\* Mutant: any resolved verify call is answered 200 with whatever token.
VerifyReply_NoTokenCheck(o) ==
  /\ pc = "verify-code:verify"
  /\ IF AxiosResolves(o)
       THEN Finish(o, 200, LoginBody(ResultToken(o)))
       ELSE Finish(o, 400, ErrorBody(Lit("Invalid verification code")))

\* Mutant: a rejected verify call is relayed with the upstream status and body.
VerifyReply_RelayFailure(o) ==
  /\ pc = "verify-code:verify"
  /\ IF AxiosResolves(o)
       THEN IF Truthy(ResultToken(o))
              THEN Finish(o, 200, LoginBody(ResultToken(o)))
              ELSE Finish(o, 400, ErrorBody(Lit("Failed to retrieve token.")))
       ELSE IF o.kind = "http"
              THEN Finish(o, o.status, o.body)
              ELSE Finish(o, 400, ErrorBody(Lit("Invalid verification code")))

\* Mutant: a verify call that rejects without a response is answered 500.
VerifyReply_ServerErrorOnNoResponse(o) ==
  /\ pc = "verify-code:verify"
  /\ IF AxiosResolves(o)
       THEN IF Truthy(ResultToken(o))
              THEN Finish(o, 200, LoginBody(ResultToken(o)))
              ELSE Finish(o, 400, ErrorBody(Lit("Failed to retrieve token.")))
       ELSE IF o.kind = "http"
              THEN Finish(o, 400, ErrorBody(Lit("Invalid verification code")))
              ELSE Finish(o, 500, ErrorBody(Lit("Invalid verification code")))

VerifyReply(o) ==
  /\ pc = "verify-code:verify"
  /\ IF AxiosResolves(o)
       THEN IF Truthy(ResultToken(o))
              THEN Finish(o, 200, LoginBody(ResultToken(o)))
              ELSE Finish(o, 400, ErrorBody(Lit("Failed to retrieve token.")))
       ELSE Finish(o, 400, ErrorBody(Lit("Invalid verification code")))

\* -------------------------------------------------------- data-store routes
StoreCall(table, filter) ==
  Call("store", "GET", config.SUPABASE_URL, table, config.SUPABASE_ANON_KEY,
       [NoBody EXCEPT !.to = filter])

\* The data-store client resolves { data, error } or throws.
StoreOutcomes ==
  {StoreResult(d, e) : d \in StoreRows, e \in StoreErrors}
    \cup {NetErr(m) : m \in ExceptionMessages}

\* errorHandler: err.statusCode || 500, { error: err.message }
errorHandler(err) ==
  Response(IF err.status # 0 THEN err.status ELSE 500, ErrorBody(err.msg))

\* Mutant: the restaurant_id check is missing.
GetMenu_NoValidation(restaurant_id) ==
  /\ CanReceive
  /\ Suspend([NoReq EXCEPT !.route = "menu", !.restaurant_id = restaurant_id], NoLoc,
             StoreCall("menu_items", restaurant_id), "menu:store")

GetMenu(restaurant_id) ==
  /\ CanReceive
  /\ LET r == [NoReq EXCEPT !.route = "menu", !.restaurant_id = restaurant_id]
     IN IF ~Truthy(restaurant_id)
          THEN RespondNow(r, 400, ErrorBody(Lit("Missing restaurant_id parameter")))
          ELSE Suspend(r, NoLoc, StoreCall("menu_items", restaurant_id), "menu:store")

\* Mutant: the error branch lacks its return and the rows are sent as well.
MenuStoreReply_MissingReturn(o) ==
  /\ pc = "menu:store"
  /\ replies' = Append(replies, o)
  /\ responses' =
       IF o.kind = "neterr" THEN Append(responses, errorHandler(o))
       ELSE IF o.msg.def
         THEN responses \o <<Response(500, ErrorBody(o.msg)), Response(200, o.body)>>
         ELSE Append(responses, Response(200, o.body))
  /\ pc' = "done"
  /\ UNCHANGED <<req, loc, calls>>
  /\ UNCHANGED procVars

MenuStoreReply(o) ==
  /\ pc = "menu:store"
  /\ IF o.kind = "neterr"
       THEN Finish(o, errorHandler(o).status, errorHandler(o).body)
       ELSE IF o.msg.def
              THEN Finish(o, 500, ErrorBody(o.msg))
              ELSE Finish(o, 200, o.body)

GetRestaurant ==
  /\ CanReceive
  /\ Suspend([NoReq EXCEPT !.route = "restaurant"], NoLoc,
             StoreCall("restaurants", Undef), "restaurant:store")

\* Mutant: the store's error is not looked at.
RestaurantStoreReply_IgnoreError(o) ==
  /\ pc = "restaurant:store"
  /\ IF o.kind = "neterr"
       THEN Finish(o, errorHandler(o).status, errorHandler(o).body)
       ELSE Finish(o, 200, o.body)

RestaurantStoreReply(o) ==
  /\ pc = "restaurant:store"
  /\ IF o.kind = "neterr"
       THEN Finish(o, errorHandler(o).status, errorHandler(o).body)
       ELSE IF o.msg.def
              THEN Finish(o, 400, ErrorBody(o.msg))
              ELSE Finish(o, 200, o.body)

\* ---------------------------------------------------------- merchants list
GetRestaurants ==
  /\ CanReceive
  /\ Suspend([NoReq EXCEPT !.route = "restaurants"], NoLoc,
             Timed(Call("upstream", "GET", config.WHATS_DISH_BASE_URL, "/api/rn/merchants",
                        Undef, NoBody)),
             "restaurants:list")

RestaurantsReply(o) ==
  /\ pc = "restaurants:list"
  /\ IF AxiosResolves(o)
       THEN IF o.status # 200
              THEN Finish(o, o.status, ErrorBody(Lit("Failed to fetch restaurants")))
              ELSE Finish(o, 200, o.body)
       ELSE Finish(o, 500,
                   ErrorBody(Lit("Internal server error while fetching restaurant data")))

\* ------------------------------------------------- authenticated proxy routes
\* String.prototype.split(sep): the pieces between occurrences of sep; the
\* empty string splits into one empty piece.
RECURSIVE Split(_, _)
Split(s, sep) ==
  IF s = <<>> THEN << <<>> >>
  ELSE LET rest == Split(Tail(s), sep)
       IN IF Head(s) = sep
            THEN << <<>> >> \o rest
            ELSE << <<Head(s)>> \o Head(rest) >> \o Tail(rest)

\* Mutant: the first piece of the header is taken for the token.
ExtractToken_FirstPiece(authorization) ==
  IF ~authorization.def THEN Undef ELSE S(Split(authorization.val, " ")[1])

\* req.headers['authorization']?.split(' ')[1]
ExtractToken(authorization) ==
  IF ~authorization.def THEN Undef
  ELSE LET parts == Split(authorization.val, " ")
       IN IF Len(parts) >= 2 THEN S(parts[2]) ELSE Undef

\* What makeAuthenticatedRequest does with the outcome of fetch: it returns
\* the parsed body, or throws an error that may carry status and data.
Returned(data) == [thrown |-> FALSE, status |-> 0, message |-> Undef, data |-> data]
Thrown(status, message, data) ==
  [thrown |-> TRUE, status |-> status, message |-> message, data |-> data]

\* Mutant: a body that is not JSON still leaves the error its status.
makeAuthenticatedRequest_KeepStatus(o) ==
  IF o.kind # "http" THEN Thrown(0, o.msg, JNull)
  ELSE IF ~o.parsable
    THEN Thrown(o.status, Lit("Unexpected token < in JSON at position 0"), JNull)
  ELSE IF Ok(o.status) THEN Returned(o.body)
  ELSE IF o.body.kind = "null"
    THEN Thrown(0, Lit("Cannot read properties of null (reading 'message')"), JNull)
  ELSE Thrown(o.status, OrElse(o.body.message, Lit("API request failed")), o.body)

makeAuthenticatedRequest(o) ==
  IF o.kind # "http" THEN Thrown(0, o.msg, JNull)
  ELSE IF ~o.parsable
    THEN Thrown(0, Lit("Unexpected token < in JSON at position 0"), JNull)
  ELSE IF Ok(o.status) THEN Returned(o.body)
  ELSE IF o.body.kind = "null"
    THEN Thrown(0, Lit("Cannot read properties of null (reading 'message')"), JNull)
  ELSE Thrown(o.status, OrElse(o.body.message, Lit("API request failed")), o.body)

\* options.body is set only for a truthy body and POST or PUT.
RequestBody(method, body) ==
  IF Truthy(body) /\ method \in {"POST", "PUT"} THEN CardBody(body) ELSE NoBody

AuthCall(method, path, token, body) ==
  Call("upstream", method, config.WHATS_DISH_BASE_URL, path, token,
       RequestBody(method, body))

\* Per route: what follows WHATS_DISH_BASE_URL, the method, the 401 message
\* and the message used when the caught error has none.
Routes ==
  [ profile |-> [path |-> "/api/rn/profile", method |-> "GET",
                 unauthorized |-> Lit("Token is required"),
                 fallback |-> Lit("Error fetching profile")],
    fetchMenu |-> [path |-> "/api/rn/merchants/:restaurantId", method |-> "GET",
                   unauthorized |-> Lit("Unauthorized: Missing token"),
                   fallback |-> Lit("Error fetching menu")],
    paymentMethods |-> [path |-> "/api/profile/payment-methods", method |-> "GET",
                        unauthorized |-> Lit("Token is required"),
                        fallback |-> Lit("Error fetching payment methods")],
    cof |-> [path |-> "/api/payments/m/cof", method |-> "POST",
             unauthorized |-> Lit("Token is required"),
             fallback |-> Lit("Error adding payment method")],
    deleteCard |-> [path |-> "/api/profile/payment-methods/:cardId", method |-> "DELETE",
                    unauthorized |-> Lit("Token is required"),
                    fallback |-> Lit("Error deleting payment method")],
    restaurantDetail |-> [path |-> "/api/rn/merchants/:restaurantId", method |-> "GET",
                          unauthorized |-> Lit("Token is required"),
                          fallback |-> Lit("Error fetching restaurant details")] ]

AuthRoutes == DOMAIN Routes

\* The part the six handlers share: take the token from the header, answer
\* 401 without it, otherwise call makeAuthenticatedRequest.
TokenGate(r, body) ==
  LET token == ExtractToken(r.authorization)
      route == Routes[r.route]
  IN IF ~Truthy(token)
       THEN RespondNow(r, 401, ErrorBody(route.unauthorized))
       ELSE Suspend(r, [NoLoc EXCEPT !.token = token],
                    AuthCall(route.method, route.path, token, body),
                    "proxy:fetch")

GetUserProfile(authorization) ==
  /\ CanReceive
  /\ TokenGate([NoReq EXCEPT !.route = "profile", !.authorization = authorization], Undef)

FetchMenu(restaurantId, authorization) ==
  /\ CanReceive
  /\ LET r == [NoReq EXCEPT !.route = "fetchMenu", !.restaurantId = restaurantId,
                            !.authorization = authorization]
     IN IF ~Truthy(restaurantId)
          THEN RespondNow(r, 400, ErrorBody(Lit("Missing restaurantId parameter")))
          ELSE TokenGate(r, Undef)

GetPaymentMethods(authorization) ==
  /\ CanReceive
  /\ TokenGate([NoReq EXCEPT !.route = "paymentMethods", !.authorization = authorization],
               Undef)

PostCof(authorization, cardInfo) ==
  /\ CanReceive
  /\ LET r == [NoReq EXCEPT !.route = "cof", !.authorization = authorization,
                            !.cardInfo = cardInfo]
     IN IF Truthy(ExtractToken(authorization)) /\ ~cardInfo.def
          THEN RespondNow(r, 400, ErrorBody(Lit("Card information is required")))
          ELSE TokenGate(r, cardInfo)

DeleteCard(authorization) ==
  /\ CanReceive
  /\ TokenGate([NoReq EXCEPT !.route = "deleteCard", !.authorization = authorization],
               Undef)

GetRestaurantDetail(authorization) ==
  /\ CanReceive
  /\ TokenGate([NoReq EXCEPT !.route = "restaurantDetail",
                             !.authorization = authorization], Undef)

\* Outcomes of fetch: a response with a JSON or a non-JSON body, or a
\* rejection.
FetchOutcomes ==
  {Http(st, b) : st \in UpstreamStatuses, b \in UpstreamBodies}
    \cup {HttpGarbage(st) : st \in UpstreamStatuses}
    \cup {NetErr(m) : m \in ExceptionMessages}

\* error.status || 500
RelayStatus(e) == IF e.status # 0 THEN e.status ELSE 500

\* { error: error.message || fallback }
RelayBody(e, fallback) == ErrorBody(OrElse(e.message, fallback))

\* Mutant: the success path sends the upstream status along.
FetchReply_RelaySuccessStatus(o) ==
  /\ pc = "proxy:fetch"
  /\ LET e == makeAuthenticatedRequest(o) IN
       IF ~e.thrown
         THEN Finish(o, o.status, e.data)
         ELSE Finish(o, RelayStatus(e), RelayBody(e, Routes[req.route].fallback))

\* fetch settles: makeAuthenticatedRequest returns or throws and the route
\* answers from its inner try or catch.
FetchReply(o) ==
  /\ pc = "proxy:fetch"
  /\ LET e == makeAuthenticatedRequest(o) IN
       IF ~e.thrown
         THEN Finish(o, 200, e.data)
         ELSE Finish(o, RelayStatus(e), RelayBody(e, Routes[req.route].fallback))

Next ==
  \/ Startup
  \/ \E phoneNumber \in Phones, phone \in Phones : SendCode(phoneNumber, phone)
  \/ \E o \in AxiosOutcomes(UpstreamBodies) : TriggerReply(o)
  \/ \E phoneNumber \in Phones, phone \in Phones, code \in Codes, ip \in ReqIps :
       VerifyCode(phoneNumber, phone, code, ip)
  \/ \E o \in IpOutcomes : IpReply(o)
  \/ \E o \in AxiosOutcomes(VerifyBodies) : VerifyReply(o)
  \/ \E restaurant_id \in Ids : GetMenu(restaurant_id)
  \/ \E o \in StoreOutcomes : MenuStoreReply(o)
  \/ GetRestaurant
  \/ \E o \in StoreOutcomes : RestaurantStoreReply(o)
  \/ GetRestaurants
  \/ \E o \in AxiosOutcomes(UpstreamBodies) : RestaurantsReply(o)
  \/ \E authorization \in Headers : GetUserProfile(authorization)
  \/ \E restaurantId \in Ids, authorization \in Headers : FetchMenu(restaurantId, authorization)
  \/ \E authorization \in Headers : GetPaymentMethods(authorization)
  \/ \E authorization \in Headers, cardInfo \in Cards : PostCof(authorization, cardInfo)
  \/ \E authorization \in Headers : DeleteCard(authorization)
  \/ \E authorization \in Headers : GetRestaurantDetail(authorization)
  \/ \E o \in FetchOutcomes : FetchReply(o)
  \/ EndRequest

Spec == Init /\ [][Next]_vars

\* ======================================================================
\* Properties
\* ======================================================================
Answered == pc = "done"
TheResponse == responses[1]

\* A header carries a bearer token when a space occurs in it and the
\* character right after the first space exists and is not a space.
FirstSpace(h) == CHOOSE i \in 1..Len(h) : h[i] = " " /\ \A j \in 1..(i - 1) : h[j] # " "
CarriesToken(a) ==
  /\ a.def
  /\ \E i \in 1..Len(a.val) : a.val[i] = " "
  /\ FirstSpace(a.val) < Len(a.val)
  /\ a.val[FirstSpace(a.val) + 1] # " "

ClaimedAuthRoutes == {"restaurantDetail", "profile", "paymentMethods", "cof", "deleteCard"}

\* C1: a request to an auth-required route whose Authorization header is
\* absent or carries no token is answered 401 with no outbound call; every
\* call of the upstream client carries a non-empty bearer token.
C1_NoTokenNoCall ==
  /\ (req.route \in ClaimedAuthRoutes /\ ~CarriesToken(req.authorization))
       => /\ Answered
          /\ Len(responses) = 1
          /\ TheResponse.status = 401
          /\ calls = <<>>
  /\ \A i \in 1..Len(calls) :
       (req.route \in AuthRoutes /\ calls[i].endpoint = "upstream")
         => calls[i].token.def /\ calls[i].token.val # <<>>

C1_Witness ==
  /\ req.route = "restaurantDetail"
  /\ req.authorization.def
  /\ req.authorization.val # <<>>
  /\ ~CarriesToken(req.authorization)
  /\ Answered
  /\ TheResponse.status = 401

\* C2: on a proxied route called with a token, an upstream non-2xx answer
\* with status S and JSON body B reaches the client as status S, body B.
C2_FailurePassthrough ==
  (/\ req.route \in AuthRoutes
   /\ Answered
   /\ Len(replies) = 1
   /\ replies[1].kind = "http"
   /\ replies[1].parsable
   /\ ~Ok(replies[1].status))
    => TheResponse = Response(replies[1].status, replies[1].body)

\* The IP-lookup call failed: it rejected, with or without a response.
IpCallFailed(o) == o.kind = "neterr" \/ (o.kind = "http" /\ ~Ok(o.status))

HasResultToken(o) ==
  /\ o.kind = "http"
  /\ o.body.kind = "object"
  /\ o.body.result.def
  /\ o.body.result.token.def
  /\ o.body.result.token.val # <<>>

\* C3: in verify-code with phone number and code present, a failed IP
\* lookup is followed by the verify call with Ip set to the connection's IP,
\* or 127.0.0.1 without one; a successful verify answer with result.token
\* yields 200 {message: "Login successful!", token}.
C3_IpFallback ==
  (/\ req.route = "verify-code"
   /\ Len(replies) >= 1
   /\ IpCallFailed(replies[1]))
    => /\ Len(calls) = 2
       /\ calls[2].endpoint = "verify"
       /\ calls[2].path = "/api/auth/login-with-sms-verify"
       /\ calls[2].body.Ip =
            (IF req.ip.def /\ req.ip.val # <<>> THEN req.ip ELSE Lit("127.0.0.1"))
       /\ (/\ Len(replies) = 2
           /\ Ok(replies[2].status)
           /\ HasResultToken(replies[2]))
            => responses = <<Response(200, JObj(Lit("Login successful!"), Undef,
                                               replies[2].body.result.token, NoResult))>>

C3_Witness ==
  /\ req.route = "verify-code"
  /\ Len(replies) = 2
  /\ replies[1].kind = "neterr"
  /\ ~req.ip.def
  /\ calls[2].body.Ip = Lit("127.0.0.1")
  /\ HasResultToken(replies[2])
  /\ Answered
  /\ TheResponse.status = 200

\* C4: in verify-code a 2xx verify answer without result.token is answered
\* 400 with an error body; 200 is sent only when result.token is present,
\* and then carries that token.
C4_NoTokenNo200 ==
  (req.route = "verify-code" /\ Answered /\ Len(replies) = 2)
    => /\ (/\ replies[2].kind = "http"
           /\ Ok(replies[2].status)
           /\ ~HasResultToken(replies[2]))
            => /\ TheResponse.status = 400
               /\ TheResponse.body.error.def
               /\ TheResponse.body.error.val # <<>>
       /\ TheResponse.status = 200
            => /\ HasResultToken(replies[2])
               /\ TheResponse.body.token = replies[2].body.result.token

C4_Witness ==
  /\ req.route = "verify-code"
  /\ Answered
  /\ Len(replies) = 2
  /\ replies[2].kind = "http"
  /\ replies[2].status = 200
  /\ replies[2].body.kind = "object"
  /\ replies[2].body.result.def
  /\ ~replies[2].body.result.token.def
  /\ TheResponse.status = 400

\* C5: in verify-code a non-2xx verify answer is answered 400 with the fixed
\* body {error: "Invalid verification code"}, whatever the upstream status
\* and body were.
C5_FixedInvalidCode ==
  (/\ req.route = "verify-code"
   /\ Answered
   /\ Len(replies) = 2
   /\ replies[2].kind = "http"
   /\ ~Ok(replies[2].status))
    => responses = <<Response(400, JObj(Undef, Lit("Invalid verification code"),
                                        Undef, NoResult))>>

C5_Witness ==
  /\ req.route = "verify-code"
  /\ Answered
  /\ Len(replies) = 2
  /\ replies[2].kind = "http"
  /\ replies[2].status = 404
  /\ replies[2].body.message = Lit("diag")
  /\ TheResponse.status = 400

SentPhone(r) ==
  IF r.phoneNumber.def /\ r.phoneNumber.val # <<>> THEN r.phoneNumber ELSE r.phone
PhonePresent(r) == SentPhone(r).def /\ SentPhone(r).val # <<>>

\* C6: a send-code request with a phone number makes exactly one upstream
\* call, to login-with-sms-trigger with body {to: phoneNumber}; when that
\* call succeeds the answer is 200 {message: "Verification code sent!"}
\* whatever the upstream body is.
C6_OneTriggerCall ==
  (req.route = "send-code" /\ PhonePresent(req))
    => /\ Len(calls) = 1
       /\ calls[1].endpoint = "trigger"
       /\ calls[1].path = "/api/auth/login-with-sms-trigger"
       /\ calls[1].body = [to |-> SentPhone(req), code |-> Undef, Ip |-> Undef,
                           lang |-> Undef, card |-> Undef]
       /\ (Answered /\ replies[1].kind = "http" /\ Ok(replies[1].status))
            => responses = <<Response(200, JObj(Lit("Verification code sent!"), Undef,
                                               Undef, NoResult))>>

C6_Witness ==
  /\ req.route = "send-code"
  /\ req.phoneNumber = Lit("+16045551234")
  /\ ~req.phone.def
  /\ Answered
  /\ replies[1].kind = "http"
  /\ replies[1].status = 201
  /\ replies[1].body.kind = "null"
  /\ TheResponse.status = 200

ValidationFails(r) ==
  \/ r.route = "send-code" /\ ~PhonePresent(r)
  \/ r.route = "verify-code" /\ (~PhonePresent(r) \/ ~(r.code.def /\ r.code.val # <<>>))
  \/ r.route = "menu" /\ ~(r.restaurant_id.def /\ r.restaurant_id.val # <<>>)

\* C7: send-code without a phone number, verify-code without phone number
\* or code, and GET /menu without restaurant_id are answered 400 and make no
\* outbound call.
C7_ValidationNoCalls ==
  ValidationFails(req)
    => /\ Answered
       /\ Len(responses) = 1
       /\ TheResponse.status = 400
       /\ calls = <<>>

C7_Witness ==
  /\ req.route = "menu"
  /\ ~req.restaurant_id.def
  /\ Answered
  /\ TheResponse.status = 400
  /\ calls = <<>>

\* C8: for GET /restaurant and GET /menu?restaurant_id=X, when the store
\* reports no error the answer is 200 with exactly the rows the store
\* returned; when it reports an error the rows are not returned.
C8_StoreRoundTrip ==
  (/\ req.route \in {"menu", "restaurant"}
   /\ Answered
   /\ Len(replies) = 1
   /\ replies[1].kind = "store")
    => /\ ~replies[1].msg.def => responses = <<Response(200, replies[1].body)>>
       /\ replies[1].msg.def
            => /\ TheResponse.status # 200
               /\ TheResponse.body.kind = "object"
               /\ TheResponse.body.rows = <<>>

C8_Witness ==
  /\ req.route = "restaurant"
  /\ Answered
  /\ replies[1].kind = "store"
  /\ ~replies[1].msg.def
  /\ replies[1].body.rows = <<"r1", "r2">>
  /\ TheResponse.body.rows = <<"r1", "r2">>

\* C9: in send-code a failed trigger call (non-2xx or network error) is
\* answered 500 {error: "Failed to send verification code"} and the trigger
\* endpoint is not called again for that request.
C9_TriggerFailure ==
  (/\ req.route = "send-code"
   /\ Len(replies) = 1
   /\ (replies[1].kind # "http" \/ ~Ok(replies[1].status)))
    => /\ Answered
       /\ responses = <<Response(500, JObj(Undef, Lit("Failed to send verification code"),
                                           Undef, NoResult))>>
       /\ Len(calls) = 1

C9_Witness ==
  /\ req.route = "send-code"
  /\ Answered
  /\ Len(replies) = 1
  /\ replies[1].kind = "http"
  /\ replies[1].status = 404
  /\ TheResponse.status = 500

\* The environment's value for a required variable under the selected mode.
Selected(dev, prod) == IF env.NODE_ENV = Lit("development") THEN env[dev] ELSE env[prod]
Present(v) == v.def /\ v.val # <<>>
ConfigComplete ==
  /\ Present(Selected("DEV_SUPABASE_URL", "PROD_SUPABASE_URL"))
  /\ Present(Selected("DEV_SUPABASE_ANON_KEY", "PROD_SUPABASE_ANON_KEY"))
  /\ Present(Selected("DEV_WHATS_DISH_BASE_URL", "PROD_WHATS_DISH_BASE_URL"))

\* C10: when a required configuration value of the selected environment is
\* missing, the process exits with a non-zero code and never listens, so no
\* request is handled without an upstream target; the check runs once.
C10_FailFast ==
  /\ (~ConfigComplete /\ proc # "booting") => (proc = "exited" /\ exitCode > 0)
  /\ proc = "listening" => ConfigComplete
  /\ (req # NoReq \/ pc # "idle") => (proc = "listening" /\ ConfigComplete)
  /\ \A i \in 1..Len(calls) : calls[i].base.def /\ calls[i].base.val # <<>>
  /\ checksRun <= 1
  /\ proc # "booting" => checksRun = 1

C10_Witness ==
  /\ proc = "exited"
  /\ exitCode = 1
  /\ checksRun = 1
  /\ env.NODE_ENV = Lit("production")
  /\ env.PROD_SUPABASE_URL.def
  /\ env.PROD_SUPABASE_ANON_KEY.def
  /\ ~env.PROD_WHATS_DISH_BASE_URL.def
  /\ env.DEV_WHATS_DISH_BASE_URL.def

\* The one outbound call of a proxied request got a response whose body is
\* not JSON.
UnparsableReply ==
  /\ req.route \in AuthRoutes
  /\ Answered
  /\ Len(replies) = 1
  /\ replies[1].kind = "http"
  /\ ~replies[1].parsable

\* C11 as stated: when the upstream body cannot be parsed as JSON the
\* route's response status equals the upstream status.
C11_ParseFailureKeepsStatus ==
  UnparsableReply => TheResponse.status = replies[1].status

\* C11: when the upstream body cannot be parsed as JSON, the error carries
\* no upstream status and the route answers 500 with an {error} body,
\* whatever the upstream status was.
C11_ParseFailureIs500 ==
  UnparsableReply
    => /\ Len(responses) = 1
       /\ TheResponse.status = 500
       /\ TheResponse.body.kind = "object"
       /\ TheResponse.body.error.def
       /\ TheResponse.body.error.val # <<>>
       /\ ~TheResponse.body.message.def

C11_Witness ==
  /\ UnparsableReply
  /\ req.route = "profile"
  /\ replies[1].status = 404
  /\ TheResponse.status = 500

\* C12: on a proxied route an error without upstream status (a network
\* exception of the outbound call) is answered 500 with a fixed message
\* that is not the exception's own message.
C12_GenericInternalError ==
  (/\ req.route \in AuthRoutes
   /\ Answered
   /\ Len(replies) = 1
   /\ replies[1].kind = "neterr")
    => /\ TheResponse.status = 500
       /\ TheResponse.body.error # replies[1].msg

\* C13: every outbound call is issued with a timeout.
C13_EveryCallTimed ==
  \A i \in 1..Len(calls) : calls[i].timeout > NoTimeout

\* The one outbound call of a proxied request succeeded with a JSON body.
SuccessReply ==
  /\ req.route \in AuthRoutes
  /\ Answered
  /\ Len(replies) = 1
  /\ replies[1].kind = "http"
  /\ replies[1].parsable
  /\ Ok(replies[1].status)

\* C14 as stated: a 2xx upstream answer with status S and body B reaches the
\* client as status S, body B.
C14_SuccessStatusRelayed ==
  SuccessReply => TheResponse = Response(replies[1].status, replies[1].body)

\* C14: a 2xx upstream answer with JSON body B reaches the client as status
\* 200 with body exactly B, whatever the 2xx status was.
C14_SuccessIs200WithBody ==
  SuccessReply => responses = <<Response(200, replies[1].body)>>

C14_Witness ==
  /\ SuccessReply
  /\ req.route = "cof"
  /\ replies[1].status = 201
  /\ replies[1].body.kind = "object"
  /\ TheResponse.status = 200
  /\ TheResponse.body = replies[1].body

\* C15: a request makes at most two outbound calls and none to the same
\* endpoint twice; in verify-code the IP lookup has settled before the
\* verify call is issued, and the verify call is issued exactly once
\* whether the lookup succeeded or failed.
C15_CallOrder ==
  /\ Len(calls) <= 2
  /\ \A i, j \in 1..Len(calls) :
       i # j => <<calls[i].base, calls[i].path>> # <<calls[j].base, calls[j].path>>
  /\ req.route = "verify-code"
       => /\ Len(calls) >= 1 => calls[1].endpoint = "ip"
          /\ Len(calls) = 2 => Len(replies) >= 1
          /\ Len(replies) >= 1
               => /\ Len(calls) = 2
                  /\ calls[2].endpoint = "verify"
                  /\ calls[2].path = "/api/auth/login-with-sms-verify"
  /\ req.route # "verify-code" => Len(calls) <= 1

C15_Witness ==
  /\ req.route = "verify-code"
  /\ Answered
  /\ Len(calls) = 2
  /\ Len(replies) = 2
  /\ replies[1].kind = "http"
  /\ replies[1].status = 500
  /\ calls[2].endpoint = "verify"

\* C16: a handled request gets exactly one response on every control path,
\* and a relayed upstream status and body travel in that one response.
C16_OneResponse ==
  /\ Len(responses) <= 1
  /\ Answered <=> Len(responses) = 1
  /\ Answered => Len(replies) = Len(calls)
  /\ (req # NoReq /\ ~Answered) => Len(calls) = Len(replies) + 1
  /\ (Answered /\ req.route \in AuthRoutes /\ Len(replies) = 1
        /\ replies[1].kind = "http" /\ replies[1].parsable
        /\ replies[1].body.kind # "null")
       => /\ Ok(replies[1].status) => TheResponse.body = replies[1].body
          /\ ~Ok(replies[1].status) => TheResponse.status = replies[1].status

C16_Witness ==
  /\ req.route = "menu"
  /\ Answered
  /\ Len(replies) = 1
  /\ replies[1].kind = "store"
  /\ replies[1].msg.def
  /\ Len(responses) = 1
  /\ TheResponse.status = 500

\* C17: verify-code answers only 200 or 400; a verify call that fails
\* without an HTTP response (network error or timeout) is answered
\* 400 {error: "Invalid verification code"}.
C17_VerifyOnly200Or400 ==
  (req.route = "verify-code" /\ Answered)
    => /\ TheResponse.status \in {200, 400}
       /\ (Len(replies) = 2 /\ replies[2].kind \in {"neterr", "timeout"})
            => responses = <<Response(400, JObj(Undef, Lit("Invalid verification code"),
                                                Undef, NoResult))>>

C17_Witness ==
  /\ req.route = "verify-code"
  /\ Answered
  /\ Len(replies) = 2
  /\ replies[2].kind = "timeout"
  /\ TheResponse.status = 400
====
